---- MODULE Spec2Model ----
(***************************************************************************)
(* Model of the scientific-literature explorer: the SQLite paper store     *)
(* (mains.py / main.py ScientificLiteratureExplorer), the Cerebras-backed  *)
(* fetcher and extractor, and the Streamlit "Discover Papers" handler      *)
(* (app-frontend.py).                                                      *)
(*                                                                         *)
(* A Python str is a sequence of tokens.  Data the code processes          *)
(* character by character (queries, titles, author names, DOIs) is spelled *)
(* one character per token; a literal of the source that is only copied    *)
(* (a provenance label, a banner) is one token.                            *)
(***************************************************************************)
EXTENDS Integers, Sequences, FiniteSets, TLC

VARIABLES
    table,      \* rows of `papers` in rowid order (what a full scan returns)
    now,        \* the store's clock, CURRENT_TIMESTAMP
    call,       \* the last public operation: its name, arguments and outcome
    papers,     \* st.session_state.papers
    banner,     \* what the Discover handler rendered last
    pc,         \* per thread: position inside a concurrent ingest_paper
    tpay,       \* per thread: the paper_data the thread was called with
    tres,       \* per thread: the status ingest_paper returned
    lock,       \* the thread holding the database write lock, 0 when free
    commits     \* threads in the order their transactions committed

storeVars == <<table, now, call>>
uiVars    == <<papers, banner>>
concVars  == <<pc, tpay, tres, lock, commits>>
vars      == <<table, now, call, papers, banner, pc, tpay, tres, lock, commits>>

----------------------------------------------------------------------------
(* Bounds *)

MaxTime == 1        \* the clock runs over 0..MaxTime
MaxRows == 2        \* rows the table may hold in the explored runs

----------------------------------------------------------------------------
(* Strings *)

Comma  == ","
Space  == " "
Hyphen == "-"

AlphaNum ==
    {"a","b","c","d","e","f","g","h","i","j","k","l","m",
     "n","o","p","q","r","s","t","u","v","w","x","y","z",
     "A","B","C","D","E","F","G","H","I","J","K","L","M",
     "N","O","P","Q","R","S","T","U","V","W","X","Y","Z",
     "0","1","2","3","4","5","6","7","8","9"}

\* sep.join(parts)
RECURSIVE Join(_, _)
Join(parts, sep) ==
    IF parts = <<>> THEN <<>>
    ELSE IF Len(parts) = 1 THEN Head(parts)
    ELSE Head(parts) \o <<sep>> \o Join(Tail(parts), sep)

\* s.split(sep): always at least one piece
RECURSIVE SplitFrom(_, _, _)
SplitFrom(s, sep, cur) ==
    IF s = <<>> THEN <<cur>>
    ELSE IF Head(s) = sep THEN <<cur>> \o SplitFrom(Tail(s), sep, <<>>)
    ELSE SplitFrom(Tail(s), sep, Append(cur, Head(s)))

\* a split that drops the empty pieces
SplitNonEmpty(s, sep) == SelectSeq(SplitFrom(s, sep, <<>>), LAMBDA x : x /= <<>>)

Split(s, sep) == SplitFrom(s, sep, <<>>)

\* s.replace(old, new) for single characters
Replace(s, old, new) == [i \in 1..Len(s) |-> IF s[i] = old THEN new ELSE s[i]]

\* re.sub(r'[^a-zA-Z0-9]', '-', s)
Slugify(s) == [i \in 1..Len(s) |-> IF s[i] \in AlphaNum THEN s[i] ELSE Hyphen]

\* s.strip()
RECURSIVE LStrip(_)
LStrip(s) == IF s /= <<>> /\ Head(s) = Space THEN LStrip(Tail(s)) ELSE s

RECURSIVE RStrip(_)
RStrip(s) ==
    IF s /= <<>> /\ s[Len(s)] = Space THEN RStrip(SubSeq(s, 1, Len(s) - 1)) ELSE s

Strip(s) == RStrip(LStrip(s))

\* sub in s
Contains(s, sub) ==
    \E i \in 1..(Len(s) - Len(sub) + 1) : SubSeq(s, i, i + Len(sub) - 1) = sub

----------------------------------------------------------------------------
(* Payloads: the paper_data dict.  Every key carries a tag:                *)
(*   absent  - the key is missing                                          *)
(*   str     - a str (v is the string)                                     *)
(*   list    - a list of str (v is the sequence of strings)                *)
(*   null    - None                                                        *)
(*   badlist - a list holding a non-str element                            *)

AbsentV     == [tag |-> "absent", v |-> <<>>]
StrV(s)     == [tag |-> "str", v |-> s]
ListV(l)    == [tag |-> "list", v |-> l]
NullV       == [tag |-> "null", v |-> <<>>]
BadListV    == [tag |-> "badlist", v |-> <<>>]

\* dict.get(key, default) for a key holding a str
GetStr(f, default) == IF f.tag = "absent" THEN default ELSE f.v

\* ','.join(paper_data.get(key, [])) raises TypeError unless the value is
\* an iterable of str
JoinRaises(f) == f.tag \in {"null", "badlist"}
JoinField(f)  == IF f.tag = "absent" THEN <<>> ELSE Join(f.v, Comma)

Unknown == <<"u","n","k","n","o","w","n">>

----------------------------------------------------------------------------
(* The papers table *)

\* the VALUES tuple of INSERT OR REPLACE; ingestion_date takes its column
\* default CURRENT_TIMESTAMP
RowOf(p, t) ==
    [doi            |-> GetStr(p.doi, Unknown),
     title          |-> GetStr(p.title, <<>>),
     authors        |-> JoinField(p.authors),
     content        |-> GetStr(p.content, <<>>),
     citations      |-> JoinField(p.citations),
     source         |-> GetStr(p.source, <<>>),
     ingestion_date |-> t]

HasDoi(tbl, d) == \E i \in 1..Len(tbl) : tbl[i].doi = d

RowFor(tbl, d) == tbl[CHOOSE i \in 1..Len(tbl) : tbl[i].doi = d]

CountDoi(tbl, d) == Cardinality({i \in 1..Len(tbl) : tbl[i].doi = d})

Dois(tbl) == {tbl[i].doi : i \in 1..Len(tbl)}

\* a plain INSERT: the row is added whatever the table holds
InsertOnly(tbl, row) == Append(tbl, row)

\* an update in place that keeps the old value of every column the new row
\* leaves empty
MergeRow(old, new) ==
    [doi            |-> new.doi,
     title          |-> IF new.title = <<>> THEN old.title ELSE new.title,
     authors        |-> IF new.authors = <<>> THEN old.authors ELSE new.authors,
     content        |-> IF new.content = <<>> THEN old.content ELSE new.content,
     citations      |-> IF new.citations = <<>> THEN old.citations ELSE new.citations,
     source         |-> IF new.source = <<>> THEN old.source ELSE new.source,
     ingestion_date |-> new.ingestion_date]

UpsertMerge(tbl, row) ==
    IF HasDoi(tbl, row.doi)
    THEN SelectSeq(tbl, LAMBDA r : r.doi /= row.doi)
            \o <<MergeRow(RowFor(tbl, row.doi), row)>>
    ELSE Append(tbl, row)

\* an upsert that also creates an empty row for every cited doi not yet stored
RECURSIVE AddMissing(_, _, _)
AddMissing(tbl, ds, t) ==
    IF ds = <<>> THEN tbl
    ELSE AddMissing(
            IF HasDoi(tbl, Head(ds)) \/ Head(ds) = <<>> THEN tbl
            ELSE Append(tbl, [doi |-> Head(ds), title |-> <<>>, authors |-> <<>>,
                              content |-> <<>>, citations |-> <<>>, source |-> <<>>,
                              ingestion_date |-> t]),
            Tail(ds), t)

UpsertCiting(tbl, row) ==
    AddMissing(SelectSeq(tbl, LAMBDA r : r.doi /= row.doi) \o <<row>>,
               Split(row.citations, Comma), row.ingestion_date)

\* an upsert that keeps the date of the row it replaces
UpsertKeepingDate(tbl, row) ==
    SelectSeq(tbl, LAMBDA r : r.doi /= row.doi)
        \o <<IF HasDoi(tbl, row.doi)
             THEN [row EXCEPT !.ingestion_date = RowFor(tbl, row.doi).ingestion_date]
             ELSE row>>

\* a replace that empties the table before it inserts
UpsertAlone(tbl, row) == <<row>>

\* INSERT OR REPLACE INTO papers: the row holding the same primary key is
\* deleted and the new row is inserted with a fresh rowid
Upsert(tbl, row) == SelectSeq(tbl, LAMBDA r : r.doi /= row.doi) \o <<row>>

\* one dict of load_papers' result list
PaperDict(r) ==
    [doi     |-> r.doi,
     title   |-> r.title,
     authors |-> IF r.authors /= <<>> THEN Split(r.authors, Comma) ELSE <<>>,
     content |-> r.content,
     source  |-> r.source]

\* SELECT doi, title, authors, content, source FROM papers, as dicts
LoadAll(tbl) == [i \in 1..Len(tbl) |-> PaperDict(tbl[i])]

\* load_papers' result when sqlite3 fails at `fault`
LoadPapers(tbl, fault) == IF fault = "none" THEN LoadAll(tbl) ELSE <<>>

\* a window filter that lets every row through
RecentAll(tbl, t, window) == tbl

\* WHERE ingestion_date >= cutoff, the cutoff being `window` back from t
Recent(tbl, t, window) == SelectSeq(tbl, LAMBDA r : r.ingestion_date >= t - window)

----------------------------------------------------------------------------
(* Inputs of the explored runs *)

Paper(doi, title, authors, content, citations, source) ==
    [doi |-> doi, title |-> title, authors |-> authors,
     content |-> content, citations |-> citations, source |-> source]

NoPayload == Paper(AbsentV, AbsentV, AbsentV, AbsentV, AbsentV, AbsentV)

DoiX == <<"X">>
DoiY == <<"Y">>
AnnLee == <<"A","n","n"," ","L","e","e">>
BoKim  == <<"B","o"," ","K","i","m">>

\* {doi: X, title: A}
PaperA == Paper(StrV(DoiX), StrV(<<"A">>), AbsentV, AbsentV, AbsentV, AbsentV)
\* {doi: X, title: B, content: C}
PaperB == Paper(StrV(DoiX), StrV(<<"B">>), AbsentV, StrV(<<"C">>), AbsentV, AbsentV)
\* doi X with every key present, citing Y
PaperFull ==
    Paper(StrV(DoiX), StrV(<<"A">>), ListV(<<AnnLee, BoKim>>), StrV(<<"C">>),
          ListV(<<DoiY>>), StrV(<<"S">>))
\* {doi: Y, title: B, authors: []}
PaperY == Paper(StrV(DoiY), StrV(<<"B">>), ListV(<<>>), AbsentV, AbsentV, AbsentV)
\* no doi key: stored under 'unknown'
PaperNoDoi == Paper(AbsentV, StrV(<<"A">>), AbsentV, AbsentV, AbsentV, AbsentV)
\* authors: None
PaperNullAuthors == Paper(StrV(DoiX), StrV(<<"B">>), NullV, AbsentV, AbsentV, AbsentV)
\* citations: [7]
PaperBadCitations == Paper(StrV(DoiY), StrV(<<"A">>), AbsentV, AbsentV, BadListV, AbsentV)

Payloads ==
    {PaperA, PaperB, PaperFull, PaperY, PaperNoDoi, PaperNullAuthors,
     PaperBadCitations}

KeyOf(p) == GetStr(p.doi, Unknown)

\* where sqlite3 may raise sqlite3.Error inside an operation
StoreFaults == {"none", "connect", "execute", "commit"}
ReadFaults  == {"none", "connect", "execute"}

\* what the chat-completion call may give back: a transport failure, a body
\* that is not JSON, a JSON array, a JSON object
ModelReplies == {"fail", "badjson", "array", "object"}

----------------------------------------------------------------------------
(* The record of the last public operation *)

\* how far a fetch-and-ingest run went: what the model answered to the
\* search and to the extraction ("unasked" when the request was not made),
\* and how the write of the fetched record and of the placeholder ended
\* ("skipped" when not attempted)
Steps(sreply, ereply, ingest, fallback) ==
    [sreply |-> sreply, ereply |-> ereply, ingest |-> ingest, fallback |-> fallback]

NoSteps == Steps("unasked", "unasked", "skipped", "skipped")

CallS(op, arg, key, kind, status, rows, models, trips, open, before, steps) ==
    [op      |-> op,        \* the operation
     arg     |-> arg,       \* its paper_data, NoPayload when it takes none
     key     |-> key,       \* the doi or query it was about
     kind    |-> kind,      \* "mapping", "sequence" or "raised"
     status  |-> status,    \* the 'status' of a mapping, else what came back
     rows    |-> rows,      \* the sequence load_papers returned
     models  |-> models,    \* chat-completion requests made
     trips   |-> trips,     \* connections opened to the store
     open    |-> open,      \* of those, still open when it returned
     before  |-> before,    \* the table as it was when it was called
     steps   |-> steps]     \* the stages of a fetch-and-ingest run

Call(op, arg, key, kind, status, rows, models, trips, open, before) ==
    CallS(op, arg, key, kind, status, rows, models, trips, open, before, NoSteps)

NoCall == Call("none", NoPayload, <<>>, "none", "none", <<>>, 0, 0, 0, <<>>)

\* `with sqlite3.connect(...) as conn` commits or rolls back on exit and
\* never calls conn.close(): whether the connection is closed by the time
\* the function has returned is up to the interpreter's collector
LeftOpen(opened, collected) == IF opened /\ ~collected THEN 1 ELSE 0

----------------------------------------------------------------------------
(* ScientificLiteratureExplorer: the store operations *)

\* a setup that creates the table afresh each time
setup_database_afresh ==
    /\ \E fault \in ReadFaults, collected \in BOOLEAN :
        /\ call' = Call("_setup_database", NoPayload, <<>>, "none",
                        IF fault = "none" THEN "ok" ELSE "logged", <<>>,
                        0, 1, LeftOpen(fault /= "connect", collected), table)
        /\ table' = IF fault = "none" THEN <<>> ELSE table
    /\ UNCHANGED <<now, uiVars, concVars>>

\* mains.py _setup_database: CREATE TABLE IF NOT EXISTS; a sqlite3.Error is
\* logged and swallowed
setup_database ==
    /\ \E fault \in ReadFaults, collected \in BOOLEAN :
        call' = Call("_setup_database", NoPayload, <<>>, "none",
                     IF fault = "none" THEN "ok" ELSE "logged", <<>>,
                     0, 1, LeftOpen(fault /= "connect", collected), table)
    /\ UNCHANGED <<table, now, uiVars, concVars>>

\* mains.py load_papers: `status` tells whether the rows were read, the
\* database could not be opened, or the SELECT raised
load_papers ==
    /\ \E fault \in ReadFaults, collected \in BOOLEAN :
        call' = Call("load_papers", NoPayload, <<>>, "sequence",
                     IF fault = "none" THEN "rows"
                     ELSE IF fault = "connect" THEN "unopened" ELSE "unread",
                     LoadPapers(table, fault),
                     0, 1, LeftOpen(fault /= "connect", collected), table)
    /\ UNCHANGED <<table, now, uiVars, concVars>>

\* what ingest_paper does to the store and hands back, for paper_data p
\* with sqlite3 failing at `fault`
IngestOutcome(tbl, t, p, fault, collected) ==
    LET opened == fault /= "connect"
        raises == opened /\ (JoinRaises(p.authors) \/ JoinRaises(p.citations))
        wrote  == opened /\ ~raises /\ fault = "none"
    IN  [table |-> IF wrote THEN Upsert(tbl, RowOf(p, t)) ELSE tbl,
         kind   |-> IF raises THEN "raised" ELSE "mapping",
         status |-> IF raises THEN "TypeError"
                    ELSE IF wrote THEN "success" ELSE "error",
         open   |-> LeftOpen(opened, collected)]

\* mains.py ingest_paper
ingest_paper(p) ==
    /\ HasDoi(table, KeyOf(p)) \/ Len(table) < MaxRows
    /\ \E fault \in StoreFaults, collected \in BOOLEAN :
        LET out == IngestOutcome(table, now, p, fault, collected)
        IN  /\ table' = out.table
            /\ call' = Call("ingest_paper", p, KeyOf(p), out.kind, out.status,
                            <<>>, 0, 1, out.open, table)
    /\ UNCHANGED <<now, uiVars, concVars>>

\* main.py: async with get_async_db() as db: ingest_scientific_paper(p, db).
\* Every exception is caught and rolled back; __aexit__ closes the connection
ingest_scientific_paper(p) ==
    /\ HasDoi(table, KeyOf(p)) \/ Len(table) < MaxRows
    /\ \E fault \in StoreFaults \ {"connect"} :
        LET raises == JoinRaises(p.authors) \/ JoinRaises(p.citations)
            wrote  == ~raises /\ fault = "none"
        IN  /\ table' = IF wrote THEN Upsert(table, RowOf(p, now)) ELSE table
            /\ call' = Call("ingest_scientific_paper", p, KeyOf(p), "mapping",
                            IF wrote THEN "success" ELSE "error",
                            <<>>, 0, 1, 0, table)
    /\ UNCHANGED <<now, uiVars, concVars>>

\* a recommender that asks the model whether or not the base paper is stored
RecommendUnlooked(tbl, d, fault, reply) ==
    LET good == fault = "none" /\ reply \in {"array", "object"}
    IN  [kind   |-> IF good /\ reply = "object" THEN "mapping" ELSE "sequence",
         status |-> IF good THEN "verbatim" ELSE "empty",
         models |-> IF fault = "none" THEN 1 ELSE 0]

\* what recommend_papers hands back for doi d over table tbl, with sqlite3
\* failing at `fault` and the model answering `reply`: the parsed reply is
\* returned as it is
RecommendOutcome(tbl, d, fault, reply) ==
    LET found == fault = "none" /\ HasDoi(tbl, d)
        good  == found /\ reply \in {"array", "object"}
    IN  [kind   |-> IF good /\ reply = "object" THEN "mapping" ELSE "sequence",
         status |-> IF good THEN "verbatim" ELSE "empty",
         models |-> IF found THEN 1 ELSE 0]

\* a recommender that files what the model recommended as a new record
recommend_papers_saving(d) ==
    /\ \E fault \in ReadFaults, reply \in ModelReplies, collected \in BOOLEAN :
       \E o \in {RecommendOutcome(table, d, fault, reply)} :
        /\ call' = Call("recommend_papers", NoPayload, d,
                        o.kind, o.status, <<>>, o.models, 1,
                        LeftOpen(fault /= "connect", collected), table)
        /\ table' = IF o.status = "verbatim"
                    THEN Upsert(table, RowOf(NoPayload, now)) ELSE table
    /\ UNCHANGED <<now, uiVars, concVars>>

\* mains.py recommend_papers
recommend_papers(d) ==
    /\ \E fault \in ReadFaults, reply \in ModelReplies, collected \in BOOLEAN :
       \E o \in {RecommendOutcome(table, d, fault, reply)} :
        call' = Call("recommend_papers", NoPayload, d,
                     o.kind, o.status, <<>>, o.models, 1,
                     LeftOpen(fault /= "connect", collected), table)
    /\ UNCHANGED <<table, now, uiVars, concVars>>

\* a trend analysis that lets a failed request or an unparsable reply escape
TrendsRaising(tbl, t, window, fault, reply) ==
    LET some == fault = "none" /\ Recent(tbl, t, window) /= <<>>
        good == some /\ reply \in {"array", "object"}
    IN  [kind   |-> IF some /\ ~good THEN "raised"
                    ELSE IF good /\ reply = "array" THEN "sequence" ELSE "mapping",
         status |-> IF fault /= "none" THEN "error"
                    ELSE IF ~some THEN "insufficient_data"
                    ELSE IF good THEN "verbatim" ELSE "Exception",
         models |-> IF some THEN 1 ELSE 0]

\* what analyze_research_trends hands back over table tbl at time t, with
\* sqlite3 failing at `fault` and the model answering `reply`
TrendsOutcome(tbl, t, window, fault, reply) ==
    LET some == fault = "none" /\ Recent(tbl, t, window) /= <<>>
        good == some /\ reply \in {"array", "object"}
    IN  [kind   |-> IF good /\ reply = "array" THEN "sequence" ELSE "mapping",
         status |-> IF fault /= "none" THEN "error"
                    ELSE IF ~some THEN "insufficient_data"
                    ELSE IF good THEN "verbatim" ELSE "error",
         models |-> IF some THEN 1 ELSE 0]

\* mains.py analyze_research_trends
analyze_research_trends(window) ==
    /\ \E fault \in ReadFaults, reply \in ModelReplies, collected \in BOOLEAN :
       \E o \in {TrendsOutcome(table, now, window, fault, reply)} :
        call' = Call("analyze_research_trends", NoPayload, <<>>,
                     o.kind, o.status, <<>>, o.models, 1,
                     LeftOpen(fault /= "connect", collected), table)
    /\ UNCHANGED <<table, now, uiVars, concVars>>

\* time passes
Tick ==
    /\ now < MaxTime
    /\ now' = now + 1
    /\ UNCHANGED <<table, call, uiVars, concVars>>

IdleThreads == [t \in {1, 2} |-> "idle"]
NoPayloads  == [t \in {1, 2} |-> NoPayload]
NoResults   == [t \in {1, 2} |-> "none"]

Init ==
    /\ table = <<>>
    /\ now = 0
    /\ call = NoCall
    /\ papers = <<>>
    /\ banner = "none"
    /\ pc = IdleThreads
    /\ tpay = NoPayloads
    /\ tres = NoResults
    /\ lock = 0
    /\ commits = <<>>

Ingest        == \E p \in Payloads : ingest_paper(p)
IngestAsync   == \E p \in Payloads : ingest_scientific_paper(p)
Recommend     == \E d \in {DoiX, DoiY, Unknown} : recommend_papers(d)
AnalyzeTrends == \E w \in 0..MaxTime : analyze_research_trends(w)

Next ==
    \/ setup_database
    \/ load_papers
    \/ Ingest
    \/ IngestAsync
    \/ Recommend
    \/ AnalyzeTrends
    \/ Tick

Spec == Init /\ [][Next]_vars

----------------------------------------------------------------------------
(* CebrasPaperFetcher and CebrasCitationExtractor *)

MinQueryLen == 2

CerebrasPrefix == <<"d","o","i",":","c","e","r","e","b","r","a","s","-">>
DemoPrefix     == <<"d","o","i",":","d","e","m","o","-">>
Untitled       == <<"Untitled">>
WebSearchLabel == <<"Cerebras Web Search">>
DemoLabel      == <<"Demonstration Repository">>

\* one element of the search reply: a dict with some of title, url,
\* description, or something that is no dict
Candidate(title, url, description) ==
    [isdict |-> TRUE, title |-> title, url |-> url, description |-> description]

NotADict == [isdict |-> FALSE, title |-> AbsentV, url |-> AbsentV,
             description |-> AbsentV]

CandFull == Candidate(StrV(<<"T","!">>), StrV(<<"U">>), StrV(<<"D">>))
CandBare == Candidate(AbsentV, AbsentV, AbsentV)

SearchReply(kind, items) == [kind |-> kind, items |-> items]

SearchReplies ==
    {SearchReply("fail", <<>>), SearchReply("badjson", <<>>),
     SearchReply("object", <<>>), SearchReply("array", <<>>),
     SearchReply("array", <<CandFull>>), SearchReply("array", <<CandBare>>),
     SearchReply("array", <<CandFull, CandBare>>),
     SearchReply("array", <<CandBare, CandFull>>),
     SearchReply("array", <<NotADict>>)}

\* the extraction reply: a failure, or the parsed JSON value
Details(kind, title, authors, abstract, potential_citations) ==
    [kind |-> kind, title |-> title, authors |-> authors, abstract |-> abstract,
     potential_citations |-> potential_citations]

EmptyDetails == Details("object", AbsentV, AbsentV, AbsentV, AbsentV)

ExtractReplies ==
    {Details("fail", AbsentV, AbsentV, AbsentV, AbsentV),
     Details("badjson", AbsentV, AbsentV, AbsentV, AbsentV),
     Details("array", AbsentV, AbsentV, AbsentV, AbsentV),
     EmptyDetails,
     Details("object", StrV(<<"Q"," ","M","!">>), ListV(<<AnnLee>>),
             StrV(<<"S">>), ListV(<<DoiY>>)),
     Details("object", AbsentV, ListV(<<AnnLee>>), StrV(<<"S">>), AbsentV),
     Details("object", StrV(<<>>), AbsentV, AbsentV, AbsentV),
     Details("object", NullV, AbsentV, AbsentV, AbsentV),
     Details("object", StrV(<<"P">>), NullV, AbsentV, AbsentV)}

\* a search that asks the model a second time when the first reply is no list
web_search_retrying(query, reply) ==
    IF query = <<>> \/ Len(Strip(query)) < MinQueryLen
    THEN [results |-> <<>>, models |-> 0, sreply |-> "unasked"]
    ELSE [results |-> IF reply.kind = "array" THEN reply.items ELSE <<>>,
          models  |-> IF reply.kind = "array" THEN 1 ELSE 2,
          sreply  |-> IF reply.kind /= "array" THEN reply.kind
                      ELSE IF reply.items = <<>> THEN "empty" ELSE "hits"]

\* a search that measures the query without trimming it
web_search_untrimmed(query, reply) ==
    IF Len(query) < MinQueryLen
    THEN [results |-> <<>>, models |-> 0, sreply |-> "unasked"]
    ELSE [results |-> IF reply.kind = "array" THEN reply.items ELSE <<>>,
          models  |-> 1,
          sreply  |-> IF reply.kind /= "array" THEN reply.kind
                      ELSE IF reply.items = <<>> THEN "empty" ELSE "hits"]

\* a search that hands back whatever list the reply carries
web_search_unchecked(query, reply) ==
    IF query = <<>> \/ Len(Strip(query)) < MinQueryLen
    THEN [results |-> <<>>, models |-> 0, sreply |-> "unasked"]
    ELSE [results |-> reply.items,
          models  |-> 1,
          sreply  |-> IF reply.kind /= "array" THEN reply.kind
                      ELSE IF reply.items = <<>> THEN "empty" ELSE "hits"]

\* mains.py web_search_papers: a short query is turned away before any
\* request; anything but a parsed list comes back as []
web_search_papers(query, reply) ==
    IF query = <<>> \/ Len(Strip(query)) < MinQueryLen
    THEN [results |-> <<>>, models |-> 0, sreply |-> "unasked"]
    ELSE [results |-> IF reply.kind = "array" THEN reply.items ELSE <<>>,
          models  |-> 1,
          sreply  |-> IF reply.kind /= "array" THEN reply.kind
                      ELSE IF reply.items = <<>> THEN "empty" ELSE "hits"]

\* mains.py extract_paper_details: a failed request or an unparsable body
\* gives {}
extract_paper_details(reply) ==
    IF reply.kind \in {"fail", "badjson"} THEN EmptyDetails ELSE reply

\* the f-string handed to the extractor
PaperContent(selected, query) ==
    <<"Title: ">> \o GetStr(selected.title, <<"Unknown Title">>)
        \o <<"Source: ">> \o GetStr(selected.url, <<"Unknown Source">>)
        \o <<"Description: ">> \o GetStr(selected.description, <<"No description">>)
        \o <<"Research details for query: ">> \o query

\* dict.get(key, default) keeping the value's type
GetField(f, default) == IF f.tag = "absent" THEN default ELSE f

\* an ingest_data whose doi is built from the title the record is given
IngestDataTitled(details, selected, query) ==
    Paper(StrV(CerebrasPrefix \o
               Slugify(GetStr(GetField(details.title,
                                       GetField(selected.title, StrV(Untitled))),
                              Unknown))),
          GetField(details.title, GetField(selected.title, StrV(Untitled))),
          GetField(details.authors, ListV(<<>>)),
          GetField(details.abstract, StrV(PaperContent(selected, query))),
          GetField(details.potential_citations, ListV(<<>>)),
          GetField(selected.url, StrV(WebSearchLabel)))

\* the ingest_data dict of fetch_paper_details
IngestData(details, selected, query) ==
    Paper(StrV(CerebrasPrefix \o Slugify(GetStr(details.title, Unknown))),
          GetField(details.title, GetField(selected.title, StrV(Untitled))),
          GetField(details.authors, ListV(<<>>)),
          GetField(details.abstract, StrV(PaperContent(selected, query))),
          GetField(details.potential_citations, ListV(<<>>)),
          GetField(selected.url, StrV(WebSearchLabel)))

\* the one element of a singleton set: binds a value once
Only(S) == CHOOSE x \in S : TRUE

\* a fetch that selects the last candidate
PaperDetailsFromLast(query, search, ereply) ==
    LET selected == search.results[Len(search.results)]
        details  == extract_paper_details(ereply)
        none(m, e) == [found |-> FALSE, data |-> NoPayload, models |-> m,
                       sreply |-> search.sreply, ereply |-> e]
    IN  IF search.results = <<>> THEN none(search.models, "unasked")
        ELSE IF ~selected.isdict THEN none(search.models, "unasked")
        ELSE IF details.kind /= "object" THEN none(search.models + 1, ereply.kind)
        ELSE IF details.title.tag = "null" THEN none(search.models + 1, ereply.kind)
        ELSE [found |-> TRUE, data |-> IngestData(details, selected, query),
              models |-> search.models + 1,
              sreply |-> search.sreply, ereply |-> ereply.kind]

\* mains.py fetch_paper_details from line 181 on, `search` being what
\* web_search_papers gave: {} when nothing was found or anything raised
PaperDetailsFrom(query, search, ereply) ==
    LET selected == Head(search.results)
        details  == extract_paper_details(ereply)
        none(m, e) == [found |-> FALSE, data |-> NoPayload, models |-> m,
                       sreply |-> search.sreply, ereply |-> e]
    IN  IF search.results = <<>> THEN none(search.models, "unasked")
        ELSE IF ~selected.isdict THEN none(search.models, "unasked")
        ELSE IF details.kind /= "object" THEN none(search.models + 1, ereply.kind)
        ELSE IF details.title.tag = "null" THEN none(search.models + 1, ereply.kind)
        ELSE [found |-> TRUE, data |-> IngestData(details, selected, query),
              models |-> search.models + 1,
              sreply |-> search.sreply, ereply |-> ereply.kind]

\* mains.py fetch_paper_details
fetch_paper_details(query, sreply, ereply) ==
    Only({PaperDetailsFrom(query, search, ereply) :
            search \in {web_search_papers(query, sreply)}})

\* whether the run goes on to ask the extractor
AsksExtractor(search) == search.results /= <<>> /\ Head(search.results).isdict

\* a pipeline that ingests whatever fetch_paper_details gave, {} included
FetchAndIngestUntested(tbl, got, out) ==
    [table |-> out.table, kind |-> out.kind, status |-> out.status,
     data |-> got.data, models |-> got.models, trips |-> 1, open |-> out.open,
     steps |-> Steps(got.sreply, got.ereply, out.status, "skipped")]

\* mains.py fetch_and_ingest_research_paper from line 332 on, `got` being
\* what fetch_paper_details gave and `out` what ingest_paper would do with it
FetchAndIngestFrom(tbl, got, out) ==
    IF ~got.found
    THEN [table |-> tbl, kind |-> "mapping", status |-> "error",
          data |-> NoPayload, models |-> got.models, trips |-> 0, open |-> 0,
          steps |-> Steps(got.sreply, got.ereply, "skipped", "skipped")]
    ELSE [table |-> out.table, kind |-> out.kind, status |-> out.status,
          data |-> got.data, models |-> got.models, trips |-> 1, open |-> out.open,
          steps |-> Steps(got.sreply, got.ereply, out.status, "skipped")]

\* mains.py fetch_and_ingest_research_paper, called directly
fetch_and_ingest_research_paper(query) ==
    /\ \E sreply \in SearchReplies :
       \E search \in {web_search_papers(query, sreply)} :
       \E ereply \in IF AsksExtractor(search) THEN ExtractReplies ELSE {EmptyDetails} :
       \E got \in {PaperDetailsFrom(query, search, ereply)} :
       \E fault \in IF got.found THEN StoreFaults ELSE {"none"} :
       \E collected \in IF got.found /\ fault /= "connect" THEN BOOLEAN ELSE {TRUE} :
       \E out \in {IngestOutcome(table, now, got.data, fault, collected)} :
       \E r \in {FetchAndIngestFrom(table, got, out)} :
        /\ Len(r.table) <= MaxRows
        /\ table' = r.table
        /\ call' = CallS("fetch_and_ingest_research_paper", r.data, query,
                         r.kind, r.status, <<>>, r.models, r.trips, r.open,
                         table, r.steps)
    /\ UNCHANGED <<now, uiVars, concVars>>

----------------------------------------------------------------------------
(* ScientificLiteratureApp.render_search_section: the Discover Papers button *)

\* the advanced-search widgets: their defaults, and one other setting
DefaultOptions  == [scope |-> "Standard", minlen |-> "50"]
AdvancedOptions == {DefaultOptions, [scope |-> "Global", minlen |-> "100"]}

\* a placeholder that is keyed and titled without the query's words
DemoDataFixed(query, opts) ==
    Paper(StrV(DemoPrefix \o <<"paper">>),
          StrV(<<"Research Insights">>),
          ListV(<<(<<"Research Team">>)>>),
          StrV(<<"Exploratory overview">>),
          ListV(<<>>),
          StrV(DemoLabel))

\* a placeholder keyed by the query as typed
DemoDataVerbatim(query, opts) ==
    Paper(StrV(DemoPrefix \o query),
          StrV(<<"Research Insights: ">> \o query),
          ListV(<<(<<"Research Team">>)>>),
          StrV(<<"Exploratory overview of ">> \o query
               \o <<"Key Points: - Preliminary research insights - Scope: ",
                    opts.scope, " - Minimum Content Length: ", opts.minlen,
                    "This is a demonstration entry due to limited search results.">>),
          ListV(<<>>),
          StrV(DemoLabel))

\* demo_ingest_data
DemoData(query, opts) ==
    Paper(StrV(DemoPrefix \o Replace(query, Space, Hyphen)),
          StrV(<<"Research Insights: ">> \o query),
          ListV(<<(<<"Research Team">>)>>),
          StrV(<<"Exploratory overview of ">> \o query
               \o <<"Key Points: - Preliminary research insights - Scope: ",
                    opts.scope, " - Minimum Content Length: ", opts.minlen,
                    "This is a demonstration entry due to limited search results.">>),
          ListV(<<>>),
          StrV(DemoLabel))

\* a click that keeps the session's list as it was after storing the
\* placeholder
DiscoverStale(tbl, shown, query, r, demo, out, loaded) ==
    LET none == [table |-> tbl, papers |-> shown, data |-> NoPayload, models |-> 0,
                 trips |-> 0, banner |-> "warning", steps |-> NoSteps]
    IN  IF Strip(query) = <<>> THEN none
        ELSE IF r.kind = "raised"
        THEN [none EXCEPT !.data = r.data, !.models = r.models, !.trips = r.trips,
                          !.banner = "exception", !.steps = r.steps]
        ELSE IF r.status = "success"
        THEN [table |-> r.table, papers |-> loaded, data |-> r.data,
              models |-> r.models, trips |-> r.trips + 1, banner |-> "success",
              steps |-> r.steps]
        ELSE IF out.status = "success"
        THEN [table |-> out.table, papers |-> shown,
              data |-> demo, models |-> r.models, trips |-> r.trips + 1,
              banner |-> "info",
              steps |-> [r.steps EXCEPT !.fallback = "success"]]
        ELSE [table |-> tbl, papers |-> shown, data |-> demo, models |-> r.models,
              trips |-> r.trips + 1, banner |-> "failed",
              steps |-> [r.steps EXCEPT !.fallback = "error"]]

\* what one click does: `r` is what fetch_and_ingest_research_paper did,
\* `demo` the placeholder, `out` what ingest_paper would do with it, and
\* `loaded` what load_papers would return of the table written.  Gives the
\* table, the session's paper list, the banner and the stages passed
Discover(tbl, shown, query, r, demo, out, loaded) ==
    LET none == [table |-> tbl, papers |-> shown, data |-> NoPayload, models |-> 0,
                 trips |-> 0, banner |-> "warning", steps |-> NoSteps]
    IN  IF Strip(query) = <<>> THEN none
        ELSE IF r.kind = "raised"
        THEN [none EXCEPT !.data = r.data, !.models = r.models, !.trips = r.trips,
                          !.banner = "exception", !.steps = r.steps]
        ELSE IF r.status = "success"
        THEN [table |-> r.table, papers |-> loaded, data |-> r.data,
              models |-> r.models, trips |-> r.trips + 1, banner |-> "success",
              steps |-> r.steps]
        ELSE IF out.status = "success"
        THEN [table |-> out.table, papers |-> loaded,
              data |-> demo, models |-> r.models, trips |-> r.trips + 2,
              banner |-> "info",
              steps |-> [r.steps EXCEPT !.fallback = "success"]]
        ELSE [table |-> tbl, papers |-> shown, data |-> demo, models |-> r.models,
              trips |-> r.trips + 1, banner |-> "failed",
              steps |-> [r.steps EXCEPT !.fallback = "error"]]

\* during a click: the store works or raises sqlite3.Error
AppFaults == {"none", "execute"}

\* during a click: the search fails, finds nothing, or finds one candidate
ClickSearchReplies ==
    {SearchReply("fail", <<>>), SearchReply("array", <<>>),
     SearchReply("array", <<CandFull>>)}

\* during a click: the extraction fails, answers with a list, answers in
\* full, or answers with authors: null
ClickExtractReplies ==
    {Details("fail", AbsentV, AbsentV, AbsentV, AbsentV),
     Details("array", AbsentV, AbsentV, AbsentV, AbsentV),
     Details("object", StrV(<<"Q"," ","M","!">>), ListV(<<AnnLee>>),
             StrV(<<"S">>), ListV(<<DoiY>>)),
     Details("object", StrV(<<"P">>), NullV, AbsentV, AbsentV)}

render_search_section(query, opts) ==
    /\ \E sreply \in ClickSearchReplies :
       \E search \in {web_search_papers(query, sreply)} :
       \E ereply \in IF AsksExtractor(search) THEN ClickExtractReplies
                     ELSE {EmptyDetails} :
       \E got \in {PaperDetailsFrom(query, search, ereply)} :
       \E f1 \in IF got.found THEN AppFaults ELSE {"none"} :
       \E out1 \in {IngestOutcome(table, now, got.data, f1, TRUE)} :
       \E r \in {FetchAndIngestFrom(table, got, out1)} :
       \E demo \in {DemoData(query, opts)} :
       \E f2 \in IF r.status = "error" THEN AppFaults ELSE {"none"} :
       \E out2 \in {IngestOutcome(table, now, demo, f2, TRUE)} :
       \E f3 \in IF r.status = "success" \/ (r.status = "error" /\ out2.status = "success")
                 THEN AppFaults ELSE {"none"} :
       \E loaded \in {LoadPapers(IF r.status = "success" THEN r.table ELSE out2.table, f3)} :
       \E d \in {Discover(table, papers, query, r, demo, out2, loaded)} :
        /\ Len(d.table) <= MaxRows
        /\ table' = d.table
        /\ papers' = d.papers
        /\ banner' = d.banner
        /\ call' = CallS("render_search_section", d.data, query, "none",
                         d.banner, <<>>, d.models, d.trips, 0, table, d.steps)
    /\ UNCHANGED <<now, concVars>>

QueryBlank  == <<" ">>
QueryShort  == <<"a">>
QuerySpaced == <<"a"," ","b">>
QueryHyphen == <<"a","-","b">>
Queries     == {<<>>, QueryBlank, QueryShort, QuerySpaced, QueryHyphen}

DiscoverPapers == \E q \in Queries, opts \in AdvancedOptions : render_search_section(q, opts)

NextApp == DiscoverPapers

SpecApp == Init /\ [][NextApp]_vars

FetchAndIngestPaper ==
    \E q \in {<<>>, QueryShort, QuerySpaced} : fetch_and_ingest_research_paper(q)

NextFetch == FetchAndIngestPaper

SpecFetch == Init /\ [][NextFetch]_vars

----------------------------------------------------------------------------
(* The public operations of the three classes, called directly *)

\* the search replies, and a JSON object that wraps a list of candidates
ClientSearchReplies == SearchReplies \cup {SearchReply("object", <<CandFull>>)}

\* mains.py web_search_papers, called directly: `rows` is what it returned
SearchPapers(query) ==
    /\ \E reply \in ClientSearchReplies :
       \E s \in {web_search_papers(query, reply)} :
        call' = CallS("web_search_papers", NoPayload, query, "sequence",
                      IF s.results = <<>> THEN "empty" ELSE "hits",
                      s.results, s.models, 0, 0, table,
                      Steps(IF s.models = 0 THEN "unasked" ELSE reply.kind,
                            "unasked", "skipped", "skipped"))
    /\ UNCHANGED <<table, now, uiVars, concVars>>

\* mains.py extract_paper_details, called directly: `arg` holds the keys of
\* the mapping it returned
ExtractDetails ==
    /\ \E reply \in ExtractReplies :
       \E d \in {extract_paper_details(reply)} :
        call' = CallS("extract_paper_details",
                      Paper(AbsentV, d.title, d.authors, d.abstract,
                            d.potential_citations, AbsentV),
                      <<>>, IF d.kind = "array" THEN "sequence" ELSE "mapping",
                      "verbatim", <<>>, 1, 0, 0, table,
                      Steps("unasked", reply.kind, "skipped", "skipped"))
    /\ UNCHANGED <<table, now, uiVars, concVars>>

ClientQueries ==
    {<<>>, QueryBlank, QueryShort, <<" ","a"," ">>, <<"a","b">>, QuerySpaced}

Search    == \E q \in ClientQueries : SearchPapers(q)
\* a direct ingest_paper of a payload it cannot encode
IngestOne == \E p \in {PaperNullAuthors} : ingest_paper(p)

NextApi ==
    \/ Search
    \/ ExtractDetails
    \/ FetchAndIngestPaper
    \/ load_papers
    \/ IngestOne
    \/ Recommend
    \/ AnalyzeTrends

SpecApi == Init /\ [][NextApi]_vars

----------------------------------------------------------------------------
(* ingest_paper and load_papers over lists of names *)

\* an empty name, a plain name, a name holding the delimiter
Names == {<<>>, <<"A">>, <<"B", ",", "C">>}

\* the lists of at most two names
NameLists ==
    {<<>>} \cup {<<a>> : a \in Names} \cup {<<a, b>> : a \in Names, b \in Names}

PaperBy(authors) ==
    Paper(StrV(DoiX), StrV(<<"A">>), ListV(authors), AbsentV, AbsentV, AbsentV)

IngestBy == \E a \in NameLists : ingest_paper(PaperBy(a))
IngestY  == ingest_paper(PaperY)

NextLists ==
    \/ IngestBy
    \/ IngestY
    \/ load_papers

SpecLists == Init /\ [][NextLists]_vars

----------------------------------------------------------------------------
(* The reading operations over a store that ingest_paper fills *)

IngestXY == \E p \in {PaperFull, PaperY} : ingest_paper(p)

NextReads ==
    \/ IngestXY
    \/ load_papers
    \/ Recommend
    \/ AnalyzeTrends
    \/ Search
    \/ Tick

SpecReads == Init /\ [][NextReads]_vars

----------------------------------------------------------------------------
(* Two threads inside ingest_paper at once, writing the same doi *)

Threads == {1, 2}

\* both calls carry doi X
ConcurrentPayloads == {PaperA, PaperB, PaperFull}

\* the stores the two calls may start from
ConcurrentTables ==
    {<<>>, <<RowOf(PaperFull, 0)>>, <<RowOf(PaperY, 0), RowOf(PaperB, 0)>>}

InitConcurrent ==
    /\ table \in ConcurrentTables
    /\ now = 0
    /\ call = NoCall
    /\ papers = <<>>
    /\ banner = "none"
    /\ pc = IdleThreads
    /\ tpay = NoPayloads
    /\ tres = NoResults
    /\ lock = 0
    /\ commits = <<>>

\* ingest_paper is entered: sqlite3.connect
Connect(t, p) ==
    /\ pc[t] = "idle"
    /\ pc' = [pc EXCEPT ![t] = "connected"]
    /\ tpay' = [tpay EXCEPT ![t] = p]
    /\ UNCHANGED <<storeVars, uiVars, tres, lock, commits>>

\* cursor.execute(INSERT OR REPLACE ...): the statement opens the
\* transaction and takes the database's write lock
Execute(t) ==
    /\ pc[t] = "connected"
    /\ lock = 0
    /\ lock' = t
    /\ pc' = [pc EXCEPT ![t] = "written"]
    /\ UNCHANGED <<storeVars, uiVars, tpay, tres, commits>>

\* the write lock stays with the other connection past the busy timeout:
\* sqlite3.OperationalError, caught, {status: error}
ExecuteBusy(t) ==
    /\ pc[t] = "connected"
    /\ lock \notin {0, t}
    /\ pc' = [pc EXCEPT ![t] = "done"]
    /\ tres' = [tres EXCEPT ![t] = "error"]
    /\ UNCHANGED <<storeVars, uiVars, tpay, lock, commits>>

\* conn.commit(): the transaction's row becomes the stored row and the
\* lock is released; {status: success}
Commit(t) ==
    /\ pc[t] = "written"
    /\ lock = t
    /\ table' = Upsert(table, RowOf(tpay[t], now))
    /\ lock' = 0
    /\ commits' = Append(commits, t)
    /\ pc' = [pc EXCEPT ![t] = "done"]
    /\ tres' = [tres EXCEPT ![t] = "success"]
    /\ UNCHANGED <<now, call, uiVars, tpay>>

NextConcurrent ==
    \/ \E t \in Threads, p \in ConcurrentPayloads : Connect(t, p)
    \/ \E t \in Threads : Execute(t)
    \/ \E t \in Threads : ExecuteBusy(t)
    \/ \E t \in Threads : Commit(t)

SpecConcurrent == InitConcurrent /\ [][NextConcurrent]_vars

----------------------------------------------------------------------------
(* Properties of the store operations *)

IngestSucceeded == call.op = "ingest_paper" /\ call.status = "success"

\* the value a payload key must leave in its column: the string, the
\* comma-joined list, or the empty default when the key is omitted
Stored(f) ==
    IF f.tag = "absent" THEN <<>>
    ELSE IF f.tag = "list" THEN Join(f.v, Comma)
    ELSE f.v

\* C1 - replace, not merge: once ingest_paper has written a doi that was
\* already stored, the one row under that doi holds the values of this
\* payload in every column, an omitted key leaves its column empty, and
\* nothing of the row it replaced is kept.
ReplaceNotMerge ==
    (IngestSucceeded /\ HasDoi(call.before, call.key)) =>
        /\ CountDoi(table, call.key) = 1
        /\ LET r == RowFor(table, call.key)
           IN  /\ r.title = Stored(call.arg.title)
               /\ r.authors = Stored(call.arg.authors)
               /\ r.content = Stored(call.arg.content)
               /\ r.citations = Stored(call.arg.citations)
               /\ r.source = Stored(call.arg.source)

\* a second write of doi X that omits keys the replaced row had values for
ReplaceNotMergeWitness ==
    /\ IngestSucceeded
    /\ call.arg = PaperA
    /\ HasDoi(call.before, DoiX)
    /\ RowFor(call.before, DoiX).content /= <<>>
    /\ RowFor(call.before, DoiX).authors /= <<>>
    /\ RowFor(table, DoiX).content = <<>>

\* C2 - upsert idempotence: a successful ingest_paper(r) straight after a
\* successful ingest_paper(r) leaves load_papers() with the same number of
\* records and the same field values.
UpsertIdempotent ==
    [][(/\ call.op = "ingest_paper" /\ call.status = "success"
        /\ call'.op = "ingest_paper" /\ call'.status = "success"
        /\ call'.arg = call.arg)
       => LoadAll(table') = LoadAll(table)]_vars

\* the same record was written a second time, at a later time, in a table
\* that also holds another record
UpsertIdempotentWitness ==
    /\ IngestSucceeded
    /\ Len(table) > 1
    /\ call.before /= table
    /\ LoadAll(call.before) = LoadAll(table)
    /\ RowFor(call.before, call.key).ingestion_date < now

\* C3 - a successful upsert adds exactly one row when its doi was not stored
\* and none when it was, and the stored dois grow by that doi alone: no row
\* appears for a doi that is only cited.
RowCountStep ==
    IngestSucceeded =>
        /\ Len(table) = Len(call.before)
                        + (IF HasDoi(call.before, call.key) THEN 0 ELSE 1)
        /\ Dois(table) = Dois(call.before) \cup {call.key}

\* X citing Y was ingested into a table holding neither: only X is there
RowCountStepWitness ==
    /\ IngestSucceeded
    /\ call.arg = PaperFull
    /\ ~HasDoi(call.before, DoiX)
    /\ ~HasDoi(table, DoiY)
    /\ Len(table) = Len(call.before) + 1

\* C4 - upsert failure handling: an upsert that does not succeed leaves the
\* store as it was and returns the mapping {status: error, message}; no
\* exception reaches the caller.
UpsertFailureIsErrorResult ==
    (call.op \in {"ingest_paper", "ingest_scientific_paper"}
        /\ call.status /= "success") =>
        /\ table = call.before
        /\ call.kind = "mapping"
        /\ call.status = "error"

\* C10 - no connection opened by load_papers, ingest_paper, recommend_papers
\* or analyze_research_trends is still open once the operation has returned.
ConnectionsClosedOnReturn ==
    call.op \in {"load_papers", "ingest_paper", "ingest_scientific_paper",
                 "recommend_papers", "analyze_research_trends"}
        => call.open = 0

----------------------------------------------------------------------------
(* Properties of the Discover Papers handler *)

ClickEnded == call.op = "render_search_section" /\ Strip(call.key) /= <<>>

\* the placeholder's key for a query
DemoKey(query) == DemoPrefix \o Replace(query, Space, Hyphen)

LastRow(tbl) == tbl[Len(tbl)]

\* C5 as stated - fallback convergence: when the search call fails (the
\* extraction is then never reached), a discover for query Q ends with
\* exactly one new stored record, whose source is "Demonstration Repository"
\* and whose title contains Q.
FallbackAddsOneRecord ==
    (ClickEnded /\ call.steps.sreply = "fail") =>
        /\ Len(table) = Len(call.before) + 1
        /\ ~HasDoi(call.before, LastRow(table).doi)
        /\ LastRow(table).source = DemoLabel
        /\ Contains(LastRow(table).title, call.key)

\* C5 as amended - when the search call fails, a discover for Q writes the
\* placeholder under "doi:demo-" + Q with spaces turned into hyphens.  If
\* that write succeeds the store holds exactly one record under that doi,
\* with source "Demonstration Repository" and a title containing Q, the
\* other records are untouched, and the row count is one more than before
\* when the doi was new and unchanged when it was already stored.  If the
\* write fails the store is unchanged and the failure banner is shown.
FallbackConvergence ==
    (ClickEnded /\ call.steps.sreply = "fail") =>
        IF call.steps.fallback = "success"
        THEN /\ banner = "info"
             /\ CountDoi(table, DemoKey(call.key)) = 1
             /\ RowFor(table, DemoKey(call.key)).source = DemoLabel
             /\ Contains(RowFor(table, DemoKey(call.key)).title, call.key)
             /\ Dois(table) = Dois(call.before) \cup {DemoKey(call.key)}
             /\ Len(table) = Len(call.before)
                   + (IF HasDoi(call.before, DemoKey(call.key)) THEN 0 ELSE 1)
        ELSE /\ banner = "failed"
             /\ table = call.before

\* the search failed and the placeholder replaced the one an earlier click
\* for the same key had stored, next to another record
FallbackConvergenceWitness ==
    /\ ClickEnded
    /\ call.steps.sreply = "fail"
    /\ call.steps.fallback = "success"
    /\ HasDoi(call.before, DemoKey(call.key))
    /\ Len(table) = 2
    /\ Len(call.before) = 2

\* C6 - whenever the search or the extraction fails, the record a click
\* ends up storing is the placeholder (source "Demonstration Repository"),
\* not one built from the empty extraction.
PlaceholderOnStageFailure ==
    (/\ ClickEnded
     /\ call.steps.sreply \in {"fail", "badjson"}
            \/ call.steps.ereply \in {"fail", "badjson"}
     /\ banner \in {"success", "info"}) =>
        /\ banner = "info"
        /\ LastRow(table).source = DemoLabel

\* no write of the click met a storage error
StoreAccepted == call.steps.ingest /= "error" /\ call.steps.fallback /= "error"

\* C7 - every click with a non-blank query ends with a record stored for
\* it, the fetched one or the placeholder, whatever the model answers; it
\* never ends in a bare failure.  The claim covers every combination of
\* model and storage failures: it is stated here for the clicks in which
\* the store accepts every write, where only the model's answers vary.
ClickAlwaysStores ==
    (ClickEnded /\ StoreAccepted) =>
        /\ banner \in {"success", "info"}
        /\ HasDoi(table, KeyOf(call.arg))

\* C8 - no public operation raises: each returns a mapping or a sequence.
NoExceptionCrossesApi ==
    call.op \in {"load_papers", "ingest_paper", "fetch_and_ingest_research_paper",
                 "recommend_papers", "analyze_research_trends"}
        => call.kind \in {"mapping", "sequence"}

----------------------------------------------------------------------------
(* Properties of concurrent upserts *)

BothReturned == \A t \in Threads : pc[t] = "done"

\* C9 - two concurrent upserts of one doi end, under every interleaving,
\* with exactly one row for that doi, and every column of it is that of the
\* payload whose transaction committed last: never two rows, never a
\* mixture of the two payloads.
LastWriterWins ==
    BothReturned =>
        /\ commits /= <<>>
        /\ CountDoi(table, DoiX) = 1
        /\ LET p == tpay[commits[Len(commits)]]
               r == RowFor(table, DoiX)
           IN  /\ r.title = Stored(p.title)
               /\ r.authors = Stored(p.authors)
               /\ r.content = Stored(p.content)
               /\ r.citations = Stored(p.citations)
               /\ r.source = Stored(p.source)

\* both transactions committed, the full payload first and the one that
\* omits most keys last
LastWriterWinsWitness ==
    /\ BothReturned
    /\ Len(commits) = 2
    /\ tpay[commits[1]] = PaperFull
    /\ tpay[commits[2]] = PaperA
    /\ RowFor(table, DoiX).authors = <<>>

----------------------------------------------------------------------------
(* Properties of the operations called directly *)

StoreOps == {"load_papers", "ingest_paper"}
ModelOps == {"recommend_papers", "analyze_research_trends",
             "web_search_papers", "extract_paper_details"}
PipelineOps == {"fetch_and_ingest_research_paper"}

\* C11 as stated - every public operation, fetch_and_ingest_research_paper
\* included, makes at most one model call and at most one storage round
\* trip before it returns.
OneCallPerOperation ==
    call.op \in StoreOps \cup ModelOps \cup PipelineOps =>
        call.models <= 1 /\ call.trips <= 1

\* C11 as amended - every public operation makes at most one storage round
\* trip; load_papers and ingest_paper make no model call; recommend_papers,
\* analyze_research_trends, web_search_papers and extract_paper_details
\* make at most one; fetch_and_ingest_research_paper makes at most two, the
\* search and then, when the search gave a candidate, the extraction.
CallsPerOperation ==
    /\ call.trips <= 1
    /\ call.op \in StoreOps => call.models = 0
    /\ call.op \in ModelOps => call.models <= 1
    /\ call.op \in PipelineOps =>
        /\ call.models <= 2
        /\ call.models = 2 <=> call.steps.ereply /= "unasked"
        /\ call.steps.sreply = "unasked" <=> call.models = 0

\* a fetch-and-ingest that asked the model twice and wrote the store once
CallsPerOperationWitness ==
    /\ call.op \in PipelineOps
    /\ call.models = 2
    /\ call.trips = 1
    /\ call.status = "success"

----------------------------------------------------------------------------
(* Properties of the list fields *)

\* the authors load_papers returned for doi d
AuthorsOf(rows, d) == rows[CHOOSE i \in 1..Len(rows) : rows[i].doi = d].authors

NoComma(names) == \A i \in 1..Len(names) : \A j \in 1..Len(names[i]) : names[i][j] /= Comma

\* ingest_paper wrote a list of authors and load_papers read the table next
LoadedAfterIngest ==
    /\ IngestSucceeded
    /\ call.arg.authors.tag = "list"
    /\ call'.op = "load_papers"
    /\ call'.status = "rows"

\* C12 as stated - round trip of authors: for any authors sequence in which
\* no element contains a comma, ingest_paper followed by load_papers
\* returns for that doi an authors sequence equal to the input.
AuthorsRoundTripAll ==
    [][(LoadedAfterIngest /\ NoComma(call.arg.authors.v))
       => AuthorsOf(call'.rows, call.key) = call.arg.authors.v]_vars

\* C12 as amended - for any authors sequence in which no element contains a
\* comma, other than the sequence whose only element is the empty string,
\* ingest_paper followed by load_papers returns for that doi an authors
\* sequence equal to the input; the sequence holding only the empty string
\* comes back as the empty sequence.
AuthorsRoundTrip ==
    [][(LoadedAfterIngest /\ NoComma(call.arg.authors.v))
       => AuthorsOf(call'.rows, call.key) =
            IF call.arg.authors.v = <<(<<>>)>> THEN <<>> ELSE call.arg.authors.v]_vars

\* load_papers gave back two authors, the first of them the empty string,
\* for a record stored next to another
AuthorsRoundTripWitness ==
    /\ call.op = "load_papers"
    /\ call.status = "rows"
    /\ Len(call.rows) = 2
    /\ HasDoi(table, DoiX)
    /\ AuthorsOf(call.rows, DoiX) = <<(<<>>), <<"A">>>>

\* the sequence a stored list column stands for
Unjoined(col) == IF col = <<>> THEN <<>> ELSE Split(col, Comma)

\* C13 - load_papers returns, for every stored row, both its authors and its
\* citations as the sequences obtained by splitting the stored strings on
\* the delimiter, the empty string giving the empty sequence.
LoadReturnsBothLists ==
    (call.op = "load_papers" /\ call.status = "rows") =>
        \A i \in 1..Len(call.rows) :
            /\ call.rows[i].authors = Unjoined(table[i].authors)
            /\ "citations" \in DOMAIN call.rows[i]
            /\ call.rows[i].citations = Unjoined(table[i].citations)

----------------------------------------------------------------------------
(* Properties of the model clients and of the pipeline *)

Searched == call.op = "web_search_papers"

\* C14 - short-query rejection: web_search_papers called with a query whose
\* length after trimming is below 2, the empty query included, returns the
\* empty sequence and makes no model call.
ShortQueryRejected ==
    (Searched /\ Len(Strip(call.key)) < MinQueryLen) =>
        /\ call.kind = "sequence"
        /\ call.rows = <<>>
        /\ call.models = 0

\* a query of three characters that trims to one was turned away
ShortQueryRejectedWitness ==
    /\ Searched
    /\ Len(call.key) = 3
    /\ Len(Strip(call.key)) = 1
    /\ call.models = 0

Fetched == call.op = "fetch_and_ingest_research_paper"

\* C15 - when the search stage yields no candidates,
\* fetch_and_ingest_research_paper returns a mapping with status error, no
\* extraction call is made and the store is not written.
NoCandidatesIsError ==
    (Fetched /\ call.steps.sreply /= "hits") =>
        /\ call.kind = "mapping"
        /\ call.status = "error"
        /\ call.steps.ereply = "unasked"
        /\ call.models <= 1
        /\ call.trips = 0
        /\ table = call.before

\* the model answered the search with an empty list while the store held a
\* record
NoCandidatesIsErrorWitness ==
    /\ Fetched
    /\ call.steps.sreply = "empty"
    /\ call.models = 1
    /\ call.status = "error"
    /\ call.before /= <<>>

Extracted == call.op = "extract_paper_details"

\* C16 - client-boundary swallowing: web_search_papers returns the empty
\* sequence when the model call fails, when the reply is not valid JSON and
\* when the parsed reply is not an array; extract_paper_details returns the
\* empty mapping when the model call fails or the reply is not valid JSON;
\* neither raises.
ClientsSwallowFailures ==
    /\ (Searched /\ call.steps.sreply \in {"fail", "badjson", "object"}) =>
            call.kind = "sequence" /\ call.rows = <<>>
    /\ (Extracted /\ call.steps.ereply \in {"fail", "badjson"}) =>
            call.kind = "mapping" /\ call.arg = NoPayload
    /\ (Searched \/ Extracted) => call.kind /= "raised"

\* the model answered a search of a two-word query with a JSON object
ClientsSwallowFailuresWitness ==
    /\ Searched
    /\ call.key = QuerySpaced
    /\ call.steps.sreply = "object"
    /\ call.models = 1
    /\ call.rows = <<>>

\* C17 - DOI synthesis: the doi of the record the pipeline stores is
\* "doi:cerebras-" followed by that same record's title with every
\* character outside [A-Za-z0-9] replaced by "-".
DoiFromOwnTitle ==
    (Fetched /\ call.status = "success") =>
        LET r == RowFor(table, KeyOf(call.arg))
        IN  r.doi = CerebrasPrefix \o Slugify(r.title)

----------------------------------------------------------------------------
(* Properties of the analyses *)

\* no row of tbl was ingested within `window` of time t
NoneInWindow(tbl, t, window) ==
    \A i \in 1..Len(tbl) : tbl[i].ingestion_date < t - window

\* C18 - trend insufficient-data sentinel: over a store with no record
\* inside the time window, the empty store in particular,
\* analyze_research_trends returns {status: insufficient_data}, raises
\* nothing and makes no model call (when the read itself fails the mapping
\* says error, still without raising or calling the model).
TrendsSentinel ==
    /\ \A w \in 0..MaxTime, fault \in ReadFaults, reply \in ModelReplies :
        NoneInWindow(table, now, w) =>
            LET o == TrendsOutcome(table, now, w, fault, reply)
            IN  /\ o.kind = "mapping"
                /\ o.models = 0
                /\ o.status = IF fault = "none" THEN "insufficient_data" ELSE "error"
    /\ (call.op = "analyze_research_trends" /\ call.status = "insufficient_data") =>
            call.kind = "mapping" /\ call.models = 0

\* the sentinel came back over a store whose only records are older than
\* the window
TrendsSentinelWitness ==
    /\ call.op = "analyze_research_trends"
    /\ call.status = "insufficient_data"
    /\ call.models = 0
    /\ table /= <<>>
    /\ call.before = table
    /\ NoneInWindow(table, now, 0)

\* C19 - recommend_papers for a doi that is not stored returns the empty
\* sequence, signals no error and makes no model call.
RecommendUnknownDoi ==
    (call.op = "recommend_papers" /\ ~HasDoi(call.before, call.key)) =>
        /\ call.kind = "sequence"
        /\ call.status = "empty"
        /\ call.models = 0

\* recommendations were asked for a doi the store does not hold, while it
\* holds another record
RecommendUnknownDoiWitness ==
    /\ call.op = "recommend_papers"
    /\ call.key = DoiY
    /\ call.before = table
    /\ HasDoi(table, DoiX)
    /\ ~HasDoi(table, DoiY)
    /\ call.models = 0

\* C20 - load_papers fails with StoreUnavailable when the storage cannot be
\* opened, and returns the empty sequence when the table is empty or a
\* read throws: a store that cannot be opened never looks like an empty one.
LoadFailsWhenUnopened ==
    call.op = "load_papers" =>
        /\ call.status = "unopened" => call.kind = "raised"
        /\ call.status \in {"rows", "unread"} => call.kind = "sequence"
        /\ call.status = "unread" => call.rows = <<>>

----------------------------------------------------------------------------
(* Properties of the store over sequences of operations *)

Upserts == {"ingest_paper", "ingest_scientific_paper",
            "fetch_and_ingest_research_paper", "render_search_section"}

\* C21 - no sequence of public operations removes a record: the set of
\* stored dois never shrinks, and a stored row changes only through a
\* successful upsert that carries the same doi.
NeverDeleted ==
    [][/\ Dois(table) \subseteq Dois(table')
       /\ \A d \in Dois(table) :
            RowFor(table', d) /= RowFor(table, d) =>
                /\ call'.op \in Upserts
                /\ call'.status = "success"
                /\ KeyOf(call'.arg) = d]_vars

\* an upsert rewrote one of two stored rows at a later time
NeverDeletedWitness ==
    /\ IngestSucceeded
    /\ Len(table) = 2
    /\ Len(call.before) = 2
    /\ RowFor(call.before, call.key) /= RowFor(table, call.key)
    /\ \E d \in Dois(table) \ {call.key} : RowFor(call.before, d) = RowFor(table, d)

ReadOps == {"load_papers", "recommend_papers", "analyze_research_trends",
            "web_search_papers"}

\* C22 - load_papers, recommend_papers, analyze_research_trends and
\* web_search_papers leave the store unchanged: once any of them has
\* returned, with a result or after a failure, the table holds exactly the
\* rows it held before the call.
ReadsLeaveStore ==
    [][call'.op \in ReadOps => table' = table]_vars

\* recommendations came back from the model over a store of two records
ReadsLeaveStoreWitness ==
    /\ call.op = "recommend_papers"
    /\ call.status = "verbatim"
    /\ call.models = 1
    /\ Len(table) = 2
    /\ table = call.before

\* C23 - when analyze_research_trends has at least one record in the window
\* and the model call or the parsing of its reply fails, it returns
\* {status: error, message} and raises nothing.
TrendsModelFailure ==
    /\ \A w \in 0..MaxTime, reply \in {"fail", "badjson"} :
        ~NoneInWindow(table, now, w) =>
            LET o == TrendsOutcome(table, now, w, "none", reply)
            IN  /\ o.kind = "mapping"
                /\ o.status = "error"
                /\ o.models = 1
    /\ (call.op = "analyze_research_trends" /\ call.models = 1) =>
            /\ call.kind \in {"mapping", "sequence"}
            /\ call.status \in {"verbatim", "error"}
            /\ call.status = "error" => call.kind = "mapping"

\* the analysis asked the model about a stored record and came back with
\* status error
TrendsModelFailureWitness ==
    /\ call.op = "analyze_research_trends"
    /\ call.models = 1
    /\ call.status = "error"
    /\ call.before = table
    /\ table /= <<>>

\* C25 - initialization is idempotent: running _setup_database any number
\* of times against an existing store raises nothing and leaves every
\* existing row unchanged.
SetupIdempotent ==
    [][call'.op = "_setup_database" =>
        /\ table' = table
        /\ call'.kind /= "raised"
        /\ call'.status \in {"ok", "logged"}]_vars

\* the setup ran without fault over a store of two records
SetupIdempotentWitness ==
    /\ call.op = "_setup_database"
    /\ call.status = "ok"
    /\ call.before = table
    /\ Len(table) = 2

\* the step is a successful upsert of a doi that was stored already
Reingests ==
    /\ call'.op \in {"ingest_paper", "ingest_scientific_paper"}
    /\ call'.status = "success"
    /\ now' = now
    /\ HasDoi(table, call'.key)

\* C29 - a replacing upsert resets ingestion_date: after an upsert of an
\* already stored doi the row's ingestion_date is the time of this latest
\* write, not of the first one, so analyze_research_trends selects the
\* re-ingested record exactly when it would select a record created at
\* that moment.
ReingestResetsDate ==
    [][Reingests =>
        /\ RowFor(table', call'.key).ingestion_date = now
        /\ \A t \in now..MaxTime, w \in 0..MaxTime :
            (Recent(<<RowFor(table', call'.key)>>, t, w) /= <<>>)
                <=> (Recent(<<RowOf(call'.arg, now)>>, t, w) /= <<>>)]_vars

\* a record first written at an earlier time was written again and now
\* carries the later time
ReingestResetsDateWitness ==
    /\ call.op = "ingest_paper"
    /\ call.status = "success"
    /\ HasDoi(call.before, call.key)
    /\ RowFor(call.before, call.key).ingestion_date < now
    /\ RowFor(table, call.key).ingestion_date = now
    /\ Recent(call.before, now, 0) = <<>>
    /\ Recent(table, now, 0) /= <<>>

----------------------------------------------------------------------------
(* Properties of the records the pipeline builds *)

\* the row the last fetch-and-ingest run wrote
FetchedRow == RowFor(table, KeyOf(call.arg))

\* C24 - title defaulting: the record the pipeline stores never has an empty
\* title; when neither the extraction nor the candidate gives a non-empty
\* title, the title is "Untitled".
TitleNeverEmpty ==
    (Fetched /\ call.status = "success") => FetchedRow.title /= <<>>

\* two search replies that are lists with the same first candidate
SameFirst(s1, s2) ==
    /\ s1.kind = "array" /\ s2.kind = "array"
    /\ s1.items /= <<>> /\ s2.items /= <<>>
    /\ Head(s1.items) = Head(s2.items)

\* the table a run of the pipeline leaves when the store accepts the write
StoredBy(tbl, t, query, sreply, ereply) ==
    LET got == fetch_paper_details(query, sreply, ereply)
    IN  IF got.found THEN IngestOutcome(tbl, t, got.data, "none", TRUE).table
        ELSE tbl

\* C26 - the pipeline uses only the first search candidate: the text sent to
\* the extraction and the stored record's fallback title and source come
\* from candidates[0], and changing any later candidate changes neither
\* what is sent to the extraction nor what is stored.
FirstCandidateOnly ==
    \A s1 \in SearchReplies, s2 \in SearchReplies, e \in ExtractReplies :
        SameFirst(s1, s2) =>
            /\ fetch_paper_details(QuerySpaced, s1, e)
                    = fetch_paper_details(QuerySpaced, s2, e)
            /\ StoredBy(table, now, QuerySpaced, s1, e)
                    = StoredBy(table, now, QuerySpaced, s2, e)
            /\ LET got == fetch_paper_details(QuerySpaced, s1, e)
               IN  (got.found /\ e.title.tag = "absent" /\ e.abstract.tag = "absent") =>
                    /\ got.data.title = GetField(Head(s1.items).title, StrV(Untitled))
                    /\ got.data.source = GetField(Head(s1.items).url, StrV(WebSearchLabel))
                    /\ got.data.content = StrV(PaperContent(Head(s1.items), QuerySpaced))

\* a run stored the first candidate's title and source next to the text
\* built from it, the extraction having failed
FirstCandidateOnlyWitness ==
    /\ Fetched
    /\ call.status = "success"
    /\ call.steps.ereply = "fail"
    /\ FetchedRow.title = <<"T", "!">>
    /\ FetchedRow.source = <<"U">>
    /\ FetchedRow.content = PaperContent(CandFull, QuerySpaced)

UnknownKey == CerebrasPrefix \o Unknown

\* the extraction gave a mapping without a title key
NoTitleKey(e) ==
    extract_paper_details(e).kind = "object"
        /\ extract_paper_details(e).title.tag = "absent"

\* C27 - every pipeline run in which the extraction reply has no title key,
\* a failed extraction included, writes under the one key
\* "doi:cerebras-unknown" whatever the query and the candidate's title are;
\* over any sequence of such runs the store holds at most one such record
\* and each run replaces the record of the run before.
UnknownKeyShared ==
    /\ CountDoi(table, UnknownKey) <= 1
    /\ \A q \in {QuerySpaced, QueryHyphen}, s \in SearchReplies, e \in ExtractReplies :
        LET got == fetch_paper_details(q, s, e)
            tbl == StoredBy(table, now, q, s, e)
        IN  (got.found /\ NoTitleKey(e)) =>
                /\ KeyOf(got.data) = UnknownKey
                /\ CountDoi(tbl, UnknownKey) = 1
                /\ RowFor(tbl, UnknownKey) = RowOf(got.data, now)
                /\ Len(tbl) = Len(table) + (IF HasDoi(table, UnknownKey) THEN 0 ELSE 1)
    /\ (Fetched /\ call.status = "success" /\ call.steps.ereply \in {"fail", "badjson"}) =>
            /\ KeyOf(call.arg) = UnknownKey
            /\ CountDoi(table, UnknownKey) = 1
            /\ Len(table) = Len(call.before)
                    + (IF HasDoi(call.before, UnknownKey) THEN 0 ELSE 1)

\* a run whose extraction failed replaced the record that an earlier such
\* run, of another candidate, had left under the key
UnknownKeySharedWitness ==
    /\ Fetched
    /\ call.status = "success"
    /\ call.steps.ereply = "fail"
    /\ HasDoi(call.before, UnknownKey)
    /\ Len(table) = Len(call.before)
    /\ RowFor(call.before, UnknownKey).title /= RowFor(table, UnknownKey).title

----------------------------------------------------------------------------
(* Further properties of the Discover Papers handler *)

PlaceholderStored == ClickEnded /\ banner = "info"

\* C28 - the placeholder's key depends on the query alone, "doi:demo-"
\* followed by the query with each space replaced by "-": repeating a
\* failed discover for the same query replaces the same placeholder row
\* without increasing the row count, and two queries that differ only in a
\* space versus a hyphen share one placeholder row.
PlaceholderKeyedByQuery ==
    /\ \A o \in AdvancedOptions :
            KeyOf(DemoData(QuerySpaced, o)) = KeyOf(DemoData(QueryHyphen, o))
    /\ PlaceholderStored =>
        /\ KeyOf(call.arg) = DemoKey(call.key)
        /\ CountDoi(table, DemoKey(call.key)) = 1
        /\ RowFor(table, DemoKey(call.key)).title = <<"Research Insights: ">> \o call.key
        /\ HasDoi(call.before, DemoKey(call.key)) => Len(table) = Len(call.before)
        /\ ~HasDoi(call.before, DemoKey(call.key)) => Len(table) = Len(call.before) + 1

\* a failed discover for "a-b" replaced the placeholder that a failed
\* discover for "a b" had stored
PlaceholderKeyedByQueryWitness ==
    /\ PlaceholderStored
    /\ call.key = QueryHyphen
    /\ HasDoi(call.before, DemoKey(QueryHyphen))
    /\ RowFor(call.before, DemoKey(QueryHyphen)).title
            = <<"Research Insights: ">> \o QuerySpaced
    /\ RowFor(table, DemoKey(QueryHyphen)).title
            = <<"Research Insights: ">> \o QueryHyphen
    /\ Len(table) = Len(call.before)

\* what load_papers may return over table tbl: its rows, or nothing when
\* the read fails
Loadable(tbl) == {LoadPapers(tbl, f) : f \in AppFaults}

\* C30 - dashboard list consistency: whenever the discover handler ends
\* after a successful ingest, of the fetched record or of the placeholder,
\* the session's paper list is what load_papers returns for the store at
\* that moment; whenever it ends on a blank query or with both ingests
\* failed, the session's paper list and the store are both unchanged.
PaperListConsistent ==
    [][call'.op = "render_search_section" =>
        /\ banner' \in {"success", "info"} => papers' \in Loadable(table')
        /\ banner' \in {"warning", "failed"} => papers' = papers /\ table' = table]_vars

\* the placeholder was stored next to another record and the session's
\* list shows both
PaperListConsistentWitness ==
    /\ PlaceholderStored
    /\ Len(table) = 2
    /\ papers = LoadAll(table)
    /\ table /= call.before

====
